---- MODULE Spec2Model ----
(***************************************************************************)
(* viper (src/src/main.rs): a snake game on a 32x32 toroidal grid.         *)
(*                                                                         *)
(* The model follows struct State {snake, food, game_over, rng} and the    *)
(* two ggez callbacks that change it: EventHandler::update (the fixed-rate *)
(* tick driver) and EventHandler::key_down_event (input arbitration).      *)
(* draw() reads the state and changes nothing, so it has no action.  The   *)
(* Rand32 generator is seeded from OS entropy; each draw is modelled as a  *)
(* nondeterministic choice in the range rand_range returns.                *)
(***************************************************************************)
EXTENDS Integers, Sequences, FiniteSets, TLC

\* ---------------------------------------------------------------- bounds
\* Driver-loop iterations (ticks) explored from the initial state.
MaxTicks == 4
\* Key-down events explored from the initial state.
MaxKeys == 3
\* Random positions are sampled within this distance of the snake's start
\* cell, plus the two extreme corners of the range.
FoodRadius == 1
\* The same three bounds for the long-run specification (SpecLong), whose
\* runs are long enough to cross a grid edge.
MaxTicksLong == 11
MaxKeysLong == 2
FoodRadiusLong == 1
\* The same three bounds for the specification of input after the end of the
\* game (SpecOver), which leaves a key-down event for the finished game.
MaxTicksOver == 3
MaxKeysOver == 4
FoodRadiusOver == 0

\* ------------------------------------------------------------- constants
GRID_SIZE == <<32, 32>>

None == "None"

Direction == {"Up", "Down", "Left", "Right"}

\* KeyCode: the four arrow keys and one representative of every other key.
KeyCode == Direction \cup {"Other"}

\* Rust `as i8` on an unsigned value: keep the low 8 bits, two's complement.
AsI8(v) == LET m == v % 256 IN IF m >= 128 THEN m - 256 ELSE m

\* i8::rem_euclid for a positive divisor: the non-negative remainder.
RemEuclid(a, n) == ((a % n) + n) % n

\* ---------------------------------------------------------------- Position
Position_new(x, y) == [x |-> x, y |-> y]

\* Direction::from_keycode
from_keycode(key) == IF key \in Direction THEN key ELSE None

\* Direction::inverse
inverse(d) ==
    CASE d = "Up" -> "Down"
      [] d = "Down" -> "Up"
      [] d = "Left" -> "Right"
      [] d = "Right" -> "Left"

\* Rust's `%` on i8: the remainder that takes the sign of the dividend.
RemTrunc(a, n) == IF a < 0 THEN -((-a) % n) ELSE a % n

\* Position::next with `%` in place of rem_euclid (mutant).
Position_next_rem(pos, dir) ==
    CASE dir = "Up" -> Position_new(pos.x, RemTrunc(pos.y - 1, GRID_SIZE[2]))
      [] dir = "Down" -> Position_new(pos.x, RemTrunc(pos.y + 1, GRID_SIZE[2]))
      [] dir = "Left" -> Position_new(RemTrunc(pos.x - 1, GRID_SIZE[1]), pos.y)
      [] dir = "Right" -> Position_new(RemTrunc(pos.x + 1, GRID_SIZE[1]), pos.y)

\* Position::next without the rem_euclid wrap (mutant).
Position_next_nowrap(pos, dir) ==
    CASE dir = "Up" -> Position_new(pos.x, pos.y - 1)
      [] dir = "Down" -> Position_new(pos.x, pos.y + 1)
      [] dir = "Left" -> Position_new(pos.x - 1, pos.y)
      [] dir = "Right" -> Position_new(pos.x + 1, pos.y)

\* Position::next
Position_next(pos, dir) ==
    CASE dir = "Up" -> Position_new(pos.x, RemEuclid(pos.y - 1, GRID_SIZE[2]))
      [] dir = "Down" -> Position_new(pos.x, RemEuclid(pos.y + 1, GRID_SIZE[2]))
      [] dir = "Left" -> Position_new(RemEuclid(pos.x - 1, GRID_SIZE[1]), pos.y)
      [] dir = "Right" -> Position_new(RemEuclid(pos.x + 1, GRID_SIZE[1]), pos.y)

\* Rand32::rand_range(lo..hi): any value of the half-open range.
rand_range(lo, hi) == lo .. (hi - 1)

\* The start cell State::new gives the snake.
StartPos == Position_new(GRID_SIZE[1] \div 4, GRID_SIZE[2] \div 2)

Abs(n) == IF n < 0 THEN -n ELSE n

\* The draws the model explores: the cells within `radius` of the start cell
\* and the two extreme corners of the range (both draws minimal, both maximal).
Sampled(x, y, max_x, max_y, radius) ==
    \/ Abs(x - StartPos.x) <= radius /\ Abs(y - StartPos.y) <= radius
    \/ x = 0 /\ y = 0
    \/ x = max_x - 1 /\ y = max_y - 1

\* Position::random: the set of positions a call may return.
Position_random(max_x, max_y, radius) ==
    { Position_new(AsI8(x), AsI8(y)) :
        <<x, y>> \in { d \in rand_range(0, max_x) \X rand_range(0, max_y) :
                         Sampled(d[1], d[2], max_x, max_y, radius) } }

\* What Position::random(&mut rng, GRID_SIZE.0, GRID_SIZE.1) may return in
\* each specification.
Draws == Position_random(GRID_SIZE[1], GRID_SIZE[2], FoodRadius)

DrawsLong == Position_random(GRID_SIZE[1], GRID_SIZE[2], FoodRadiusLong)

DrawsOver == Position_random(GRID_SIZE[1], GRID_SIZE[2], FoodRadiusOver)

\* ------------------------------------------------------------------- Snake
\* Snake::new
Snake_new(pos) ==
    [ head |-> pos,
      dir |-> "Right",
      body |-> << Position_new(pos.x - 1, pos.y) >>,
      ate |-> None,
      prev_dir |-> "Right",
      next_dir |-> None ]

\* Snake::eats
eats(s, f) == s.head = f

\* The self-collision test with the tail, which a plain move pops, left out
\* (mutant).
eats_self_skip_tail(s) == \E i \in 1 .. Len(s.body) - 1 : s.head = s.body[i]

\* Snake::eats_self
eats_self(s) == \E i \in 1 .. Len(s.body) : s.head = s.body[i]

\* LinkedList::pop_back (dropping the result); a no-op on an empty list.
pop_back(l) == IF Len(l) = 0 THEN l ELSE SubSeq(l, 1, Len(l) - 1)

\* The buffered turn committed without the prev_dir == dir gate (mutant).
commit_turn_eager(s) ==
    IF s.next_dir # None
    THEN [s EXCEPT !.dir = s.next_dir, !.next_dir = None]
    ELSE s

\* Snake::update, lines 165-168: commit the buffered turn.
commit_turn(s) ==
    IF s.prev_dir = s.dir /\ s.next_dir # None
    THEN [s EXCEPT !.dir = s.next_dir, !.next_dir = None]
    ELSE s

\* The head moved before it is pushed, so the new head is pushed (mutant).
advance_push_new(s) ==
    LET new_head == Position_next(s.head, s.dir) IN
    [s EXCEPT !.body = <<new_head>> \o s.body,
              !.head = new_head]

\* Snake::update, lines 170-172: push the old head, move the head.
advance(s) ==
    [s EXCEPT !.body = <<s.head>> \o s.body,
              !.head = Position_next(s.head, s.dir)]

\* The two collision tests in the other order (mutant).
outcome_food_first(s, f) ==
    IF eats(s, f) THEN "Food"
    ELSE IF eats_self(s) THEN "Itself"
    ELSE None

\* Snake::update, lines 174-180: the outcome of the tick.
outcome(s, f) ==
    IF eats_self(s) THEN "Itself"
    ELSE IF eats(s, f) THEN "Food"
    ELSE None

\* The tail dropped unless food was eaten (mutant).
shrink_unless_food(s) ==
    IF s.ate # "Food" THEN [s EXCEPT !.body = pop_back(s.body)] ELSE s

\* The tail never dropped (mutant).
shrink_never(s) == s

\* The tail always dropped (mutant).
shrink_always(s) == [s EXCEPT !.body = pop_back(s.body)]

\* Snake::update, lines 182-184: drop the tail unless something was eaten.
shrink(s) == IF s.ate = None THEN [s EXCEPT !.body = pop_back(s.body)] ELSE s

\* Snake::update
Snake_update(s, f) ==
    LET s1 == commit_turn(s)
        s2 == advance(s1)
        s3 == [s2 EXCEPT !.ate = outcome(s2, f)]
        s4 == shrink(s3)
    IN  [s4 EXCEPT !.prev_dir = s4.dir]

\* Input arbitration without the reversal test of the second branch (mutant).
arbitrate_no_reverse_test(s, keycode) ==
    LET dir == from_keycode(keycode) IN
    IF dir = None THEN s
    ELSE IF s.dir # s.prev_dir /\ inverse(dir) # s.dir
         THEN [s EXCEPT !.next_dir = dir]
    ELSE [s EXCEPT !.dir = dir]

\* Input arbitration that keeps the first buffered turn (mutant).
arbitrate_keep_first(s, keycode) ==
    LET dir == from_keycode(keycode) IN
    IF dir = None THEN s
    ELSE IF s.dir # s.prev_dir /\ inverse(dir) # s.dir
         THEN IF s.next_dir = None THEN [s EXCEPT !.next_dir = dir] ELSE s
    ELSE IF inverse(dir) # s.prev_dir
         THEN [s EXCEPT !.dir = dir]
    ELSE s

\* key_down_event, lines 268-274, on the snake.
arbitrate(s, keycode) ==
    LET dir == from_keycode(keycode) IN
    IF dir = None THEN s
    ELSE IF s.dir # s.prev_dir /\ inverse(dir) # s.dir
         THEN [s EXCEPT !.next_dir = dir]
    ELSE IF inverse(dir) # s.prev_dir
         THEN [s EXCEPT !.dir = dir]
    ELSE s

\* ------------------------------------------------------------------- state
VARIABLES
    snake,      \* State.snake: [head, dir, body, ate, prev_dir, next_dir]
    food,       \* State.food.pos
    game_over,  \* State.game_over
    pc,         \* "idle": between callbacks; "update": inside update's loop
    ticks,      \* loop iterations run so far (bounds the exploration)
    keys,       \* key-down events delivered so far (bounds the exploration)
    event,      \* history: the last callback step and what it did
    window,     \* history: accepted directional inputs since the last tick
    due,        \* history: [input, ticks]: the second input of the last window
                \* of two accepted inputs, and the ticks run since with no
                \* input in between (input = None when there is none)
    probe       \* a call of Position::next checked on its own (SpecNext):
                \* its arguments and results; [stage |-> "off"] in a game

vars == <<snake, food, game_over, pc, ticks, keys, event, window, due, probe>>

\* State::new
InitWith(draws) ==
    /\ snake = Snake_new(StartPos)
    /\ food \in draws
    /\ game_over = FALSE
    /\ pc = "idle"
    /\ ticks = 0
    /\ keys = 0
    /\ event = [op |-> "new"]
    /\ window = << >>
    /\ due = [input |-> None, ticks |-> 0]

\* ggez calls update once per frame.
update_enter ==
    /\ pc = "idle"
    /\ pc' = "update"
    /\ UNCHANGED <<snake, food, game_over, ticks, keys, event, window, due, probe>>

\* update, line 226: check_update_time is false, the loop ends, Ok(()).
update_return ==
    /\ pc = "update"
    /\ pc' = "idle"
    /\ UNCHANGED <<snake, food, game_over, ticks, keys, event, window, due, probe>>

\* The loop body without the game_over test of line 227 (mutant).
driver_step_unguarded(sn, fd, go, new_pos) ==
    LET s == Snake_update(sn, fd) IN
    [ snake |-> s,
      food |-> IF s.ate = "Food" THEN new_pos ELSE fd,
      game_over |-> IF s.ate = "Itself" THEN TRUE ELSE go ]

\* The loop body with an empty Ate::Itself arm (mutant).
driver_step_no_latch(sn, fd, go, new_pos) ==
    IF ~go
    THEN LET s == Snake_update(sn, fd) IN
         [ snake |-> s,
           food |-> IF s.ate = "Food" THEN new_pos ELSE fd,
           game_over |-> go ]
    ELSE [ snake |-> sn, food |-> fd, game_over |-> go ]

\* The loop body setting game_over on any outcome but None (mutant).
driver_step_latch_any(sn, fd, go, new_pos) ==
    IF ~go
    THEN LET s == Snake_update(sn, fd) IN
         [ snake |-> s,
           food |-> IF s.ate = "Food" THEN new_pos ELSE fd,
           game_over |-> IF s.ate # None THEN TRUE ELSE go ]
    ELSE [ snake |-> sn, food |-> fd, game_over |-> go ]

\* update, lines 227-242: the body of the loop, as a function of the state
\* and of the position the random source returns if it is asked for one.
driver_step(sn, fd, go, new_pos) ==
    IF ~go
    THEN LET s == Snake_update(sn, fd) IN
         [ snake |-> s,
           food |-> IF s.ate = "Food" THEN new_pos ELSE fd,
           game_over |-> IF s.ate = "Itself" THEN TRUE ELSE go ]
    ELSE [ snake |-> sn, food |-> fd, game_over |-> go ]

\* update, lines 232-233: Position::random is called in the Ate::Food arm only.
asks_random(sn, fd, go) == ~go /\ Snake_update(sn, fd).ate = "Food"

\* update, lines 226-243: one iteration of the loop (one driver step).
update_step(maxTicks, draws) ==
    /\ pc = "update"
    /\ ticks < maxTicks
    /\ ticks' = ticks + 1
    /\ UNCHANGED <<pc, keys, probe>>
    /\ \E new_pos \in IF asks_random(snake, food, game_over) THEN draws ELSE {food} :
         LET r == driver_step(snake, food, game_over, new_pos) IN
         /\ snake' = r.snake
         /\ food' = r.food
         /\ game_over' = r.game_over
    /\ IF ~game_over
       THEN /\ event' = [op |-> "tick"]
            /\ due' = IF Len(window) = 2
                      THEN [input |-> window[2], ticks |-> 1]
                      ELSE IF window = << >> /\ due.ticks = 1
                      THEN [due EXCEPT !.ticks = 2]
                      ELSE [input |-> None, ticks |-> 0]
            /\ window' = << >>
       ELSE /\ event' = [op |-> "skip"]
            /\ UNCHANGED <<window, due>>

\* key_down_event, lines 268-274: TRUE when the key is a direction and the
\* handler takes one of its two assigning branches (it does not ignore it).
accepted(s, keycode) ==
    LET dir == from_keycode(keycode) IN
    /\ dir # None
    /\ \/ s.dir # s.prev_dir /\ inverse(dir) # s.dir
       \/ inverse(dir) # s.prev_dir

\* key_down_event with a restart: a key pressed after the end of the game
\* puts the snake back at its start and clears game_over (mutant).
key_down_event_restart(maxKeys) ==
    /\ pc = "idle"
    /\ keys < maxKeys
    /\ \E keycode \in KeyCode :
         /\ snake' = IF game_over THEN Snake_new(StartPos)
                                  ELSE arbitrate(snake, keycode)
         /\ event' = [op |-> "key", keycode |-> keycode]
         /\ window' = IF accepted(snake, keycode)
                      THEN Append(window, keycode)
                      ELSE window
    /\ game_over' = FALSE
    /\ keys' = keys + 1
    /\ UNCHANGED <<food, pc, ticks, due, probe>>

\* key_down_event
key_down_event(maxKeys) ==
    /\ pc = "idle"
    /\ keys < maxKeys
    /\ \E keycode \in KeyCode :
         /\ snake' = arbitrate(snake, keycode)
         /\ event' = [op |-> "key", keycode |-> keycode]
         /\ window' = IF accepted(snake, keycode)
                      THEN Append(window, keycode)
                      ELSE window
    /\ keys' = keys + 1
    /\ UNCHANGED <<food, game_over, pc, ticks, due, probe>>

\* No call of Position::next is checked on its own during a game.
ProbeOff == [stage |-> "off"]

Init == InitWith(Draws) /\ probe = ProbeOff

Next ==
    \/ update_enter
    \/ update_step(MaxTicks, Draws)
    \/ update_return
    \/ key_down_event(MaxKeys)

Spec == Init /\ [][Next]_vars

InitLong == InitWith(DrawsLong) /\ probe = ProbeOff

NextLong ==
    \/ update_enter
    \/ update_step(MaxTicksLong, DrawsLong)
    \/ update_return
    \/ key_down_event(MaxKeysLong)

SpecLong == InitLong /\ [][NextLong]_vars

InitOver == InitWith(DrawsOver) /\ probe = ProbeOff

NextOver ==
    \/ update_enter
    \/ update_step(MaxTicksOver, DrawsOver)
    \/ update_return
    \/ key_down_event(MaxKeysOver)

SpecOver == InitOver /\ [][NextOver]_vars

\* --------------------------------------------- Position::next on its own
\* Every in-bounds position of the grid.
AllPositions ==
    { Position_new(x, y) : <<x, y>> \in (0 .. GRID_SIZE[1] - 1) \X (0 .. GRID_SIZE[2] - 1) }

\* The game is in its initial state; the arguments of the call are any
\* in-bounds position and any direction.
InitNext ==
    /\ InitWith(Draws)
    /\ probe \in { [stage |-> "args", pos |-> p, dir |-> d] :
                     <<p, d>> \in AllPositions \X Direction }

\* Position::next(pos, dir)
next_step ==
    /\ probe.stage = "args"
    /\ probe' = [ stage |-> "moved", pos |-> probe.pos, dir |-> probe.dir,
                  moved |-> Position_next(probe.pos, probe.dir) ]
    /\ UNCHANGED <<snake, food, game_over, pc, ticks, keys, event, window, due>>

\* Position::next(moved, dir.inverse())
next_back ==
    /\ probe.stage = "moved"
    /\ probe' = [ stage |-> "back", pos |-> probe.pos, dir |-> probe.dir,
                  moved |-> probe.moved,
                  back |-> Position_next(probe.moved, inverse(probe.dir)) ]
    /\ UNCHANGED <<snake, food, game_over, pc, ticks, keys, event, window, due>>

NextNext ==
    \/ next_step
    \/ next_back

SpecNext == InitNext /\ [][NextNext]_vars

\* ------------------------------------------------------------ properties
InBounds(p) ==
    /\ 0 <= p.x /\ p.x < GRID_SIZE[1]
    /\ 0 <= p.y /\ p.y < GRID_SIZE[2]

\* The step is a driver step.
DriverStep == ticks' # ticks

\* The step is a tick: a driver step that runs the snake's tick protocol.
Tick == ticks' # ticks /\ ~game_over

\* The step is a key-down event.
KeyDown == keys' # keys

\* The direction the tick protocol executes from the current state: the
\* buffered turn if it is committed, else dir.
TickDir ==
    IF snake.prev_dir = snake.dir /\ snake.next_dir # None
    THEN snake.next_dir
    ELSE snake.dir

\* Some segment of the body is at position p.
OnBody(p) == \E i \in 1 .. Len(snake.body) : snake.body[i] = p

\* C1 (as claimed): on every tick after the first, the direction the head
\* moves in is not the inverse of the direction it moved in on the tick
\* before.  After a tick prev_dir holds the direction that tick executed.
C1_NoReversal ==
    [][ (Tick /\ ticks >= 1) => snake'.prev_dir # inverse(snake.prev_dir) ]_vars

\* C2: the driver step whose outcome is Itself sets game_over; game_over is
\* never cleared; once it is set no step changes head, body, ate, prev_dir
\* or food.
C2_GameOverLatch ==
    [][ /\ (Tick /\ snake'.ate = "Itself") => game_over'
        /\ game_over =>
             /\ game_over'
             /\ snake'.head = snake.head
             /\ snake'.body = snake.body
             /\ snake'.ate = snake.ate
             /\ snake'.prev_dir = snake.prev_dir
             /\ food' = food ]_vars

\* C2 witness: a driver step has run with the latch set.
C2_Witness == game_over /\ event.op = "skip" /\ snake.ate = "Itself"

\* C3: on a tick whose new head cell is both the food cell and the cell of a
\* body segment, the outcome is Itself, the food stays and game_over is set.
C3_SelfBeforeFood ==
    [][ (Tick /\ snake'.head = food /\ OnBody(snake'.head)) =>
          /\ snake'.ate = "Itself"
          /\ food' = food
          /\ game_over' ]_vars

\* C3 witness: a snake that ate twice has closed a loop of four cells, and
\* the cell the loop closes on (the fourth body segment) is also the food cell.
C3_Witness ==
    /\ event.op = "tick"
    /\ Len(snake.body) = 4
    /\ snake.head = snake.body[4]
    /\ snake.head # snake.body[2]
    /\ snake.head = food
    /\ snake.ate = "Itself"
    /\ game_over

\* C4 (as claimed): on every tick the body grows by one iff the outcome is
\* Food, and keeps its length otherwise.
C4_GrowsIffFood ==
    [][ Tick =>
          IF snake'.ate = "Food"
          THEN Len(snake'.body) = Len(snake.body) + 1
          ELSE Len(snake'.body) = Len(snake.body) ]_vars

\* C4 (amended): on every tick the body grows by one iff the outcome is Food
\* or Itself, and keeps its length iff the outcome is None; a driver step
\* that runs no tick keeps the length.
C4_GrowsIffAte ==
    [][ DriverStep =>
          IF Tick /\ snake'.ate \in {"Food", "Itself"}
          THEN Len(snake'.body) = Len(snake.body) + 1
          ELSE Len(snake'.body) = Len(snake.body) ]_vars

\* C4 witness: a snake that ate twice (body of 3) has closed a loop of four
\* cells; the tick with outcome Itself kept the tail, so the body has 4.
C4_Witness ==
    /\ event.op = "tick"
    /\ snake.ate = "Itself"
    /\ Len(snake.body) = 4
    /\ snake.head = snake.body[4]
    /\ snake.head # snake.body[2]

\* C5: the head, every body segment and the food are in-bounds.
C5_InBounds ==
    /\ InBounds(snake.head)
    /\ \A i \in 1 .. Len(snake.body) : InBounds(snake.body[i])
    /\ InBounds(food)

\* C5 witness: the head has moved Left across the x = 0 edge.
C5_Witness ==
    /\ snake.head.x = GRID_SIZE[1] - 1
    /\ snake.body[1].x = 0
    /\ snake.prev_dir = "Left"
\* C6: a directional input in a state with dir = prev_dir is ignored if it
\* is prev_dir's inverse (dir and next_dir keep their values) and is
\* committed at once otherwise (dir becomes the input, next_dir keeps its
\* value).
C6_NoPendingArbitration ==
    [][ (KeyDown /\ snake.dir = snake.prev_dir /\ event'.keycode \in Direction) =>
          /\ snake'.next_dir = snake.next_dir
          /\ snake'.dir = IF event'.keycode = inverse(snake.prev_dir)
                          THEN snake.dir
                          ELSE event'.keycode ]_vars

\* C6 witness: Down arrived in the initial state and was committed at once
\* (the first tick moved the head Down); Up, the inverse of prev_dir, arrived
\* after that tick and was ignored.
C6_Witness ==
    /\ ticks = 1
    /\ keys = 2
    /\ event = [op |-> "key", keycode |-> "Up"]
    /\ window = << >>
    /\ snake.head = Position_new(StartPos.x, StartPos.y + 1)
    /\ snake.dir = "Down"
    /\ snake.prev_dir = "Down"
    /\ snake.next_dir = None

\* C7 (as claimed): with prev_dir = Right and dir = Up a Right input is
\* buffered, and the tick that follows the input commits dir = Right.
C7_FollowingTickCommits ==
    [][ /\ ( /\ KeyDown
             /\ event'.keycode = "Right"
             /\ snake.prev_dir = "Right"
             /\ snake.dir = "Up" ) =>
              (snake'.next_dir = "Right" /\ snake'.dir = "Up")
        /\ ( /\ Tick
             /\ event = [op |-> "key", keycode |-> "Right"]
             /\ snake.prev_dir = "Right"
             /\ snake.dir = "Up"
             /\ snake.next_dir = "Right" ) =>
              snake'.dir = "Right" ]_vars

\* C7 (amended): with prev_dir = Right and dir = Up a Right input is
\* buffered (next_dir = Right, dir stays Up); the tick that follows the input
\* executes Up and keeps Right buffered; the tick after that one, with no
\* input in between, commits dir = Right and empties the buffer.
C7_BufferedCommit ==
    [][ /\ ( /\ KeyDown
             /\ event'.keycode = "Right"
             /\ snake.prev_dir = "Right"
             /\ snake.dir = "Up" ) =>
              (snake'.next_dir = "Right" /\ snake'.dir = "Up")
        /\ ( /\ Tick
             /\ event = [op |-> "key", keycode |-> "Right"]
             /\ snake.prev_dir = "Right"
             /\ snake.dir = "Up"
             /\ snake.next_dir = "Right" ) =>
              /\ snake'.dir = "Up"
              /\ snake'.prev_dir = "Up"
              /\ snake'.next_dir = "Right"
        /\ ( /\ Tick
             /\ event = [op |-> "tick"]
             /\ due = [input |-> "Right", ticks |-> 1]
             /\ snake.prev_dir = "Up"
             /\ snake.dir = "Up"
             /\ snake.next_dir = "Right" ) =>
              /\ snake'.dir = "Right"
              /\ snake'.prev_dir = "Right"
              /\ snake'.next_dir = None ]_vars

\* C7 witness: Up then Right arrived before the first tick, the first tick
\* moved Up, the second tick committed Right and moved Right.
C7_Witness ==
    /\ ticks = 2
    /\ keys = 2
    /\ event = [op |-> "tick"]
    /\ due = [input |-> "Right", ticks |-> 2]
    /\ snake.head = Position_new(StartPos.x + 1, StartPos.y - 1)
    /\ snake.body[1] = Position_new(StartPos.x, StartPos.y - 1)
    /\ snake.dir = "Right"
    /\ snake.prev_dir = "Right"
    /\ snake.next_dir = None

\* C8 (as claimed): when two accepted directional inputs arrive between two
\* ticks, the next tick moves the head in the direction of the first and the
\* tick after it, with no input in between, in the direction of the second.
C8_Serialized ==
    [][ /\ (Tick /\ Len(window) = 2) => snake'.prev_dir = window[1]
        /\ (Tick /\ event = [op |-> "tick"] /\ due.ticks = 1) =>
              snake'.prev_dir = due.input ]_vars

\* C9: a tick whose new head cell is neither a body cell nor the food cell
\* moves the head one cell in the tick's direction, puts the old head in
\* front of the old body without its last segment, and records outcome None;
\* the first tick of a game with no input and no food at (9,16) gives head
\* (9,16) and body [(8,16)].
C9_PlainMove ==
    [][ LET new_head == Position_next(snake.head, TickDir) IN
        /\ (Tick /\ ~OnBody(new_head) /\ new_head # food) =>
              /\ snake'.head = new_head
              /\ snake'.body =
                    <<snake.head>> \o SubSeq(snake.body, 1, Len(snake.body) - 1)
              /\ snake'.ate = None
        /\ (Tick /\ ticks = 0 /\ keys = 0 /\ food # Position_new(9, 16)) =>
              /\ snake'.head = Position_new(9, 16)
              /\ snake'.body = << Position_new(8, 16) >>
              /\ snake'.ate = None ]_vars

\* C9 witness: the first tick of a game with no input was a plain move.
C9_Witness ==
    /\ ticks = 1
    /\ keys = 0
    /\ event = [op |-> "tick"]
    /\ snake.head = Position_new(9, 16)
    /\ snake.body = << Position_new(8, 16) >>
    /\ snake.ate = None

\* C10: a tick whose new head cell is the food cell and no body cell records
\* outcome Food and puts the old head in front of the whole old body; in the
\* same driver step the food gets an in-bounds position and game_over stays
\* false; the first tick of a game with no input and food at (9,16) gives
\* head (9,16) and body [(8,16),(7,16)].
C10_EatingMove ==
    [][ LET new_head == Position_next(snake.head, TickDir) IN
        /\ (Tick /\ ~OnBody(new_head) /\ new_head = food) =>
              /\ snake'.head = new_head
              /\ snake'.ate = "Food"
              /\ snake'.body = <<snake.head>> \o snake.body
              /\ InBounds(food')
              /\ ~game_over'
        /\ (Tick /\ ticks = 0 /\ keys = 0 /\ food = Position_new(9, 16)) =>
              /\ snake'.head = Position_new(9, 16)
              /\ snake'.body = << Position_new(8, 16), Position_new(7, 16) >>
              /\ snake'.ate = "Food" ]_vars

\* C10 witness: the first tick of a game with no input ate the food and the
\* food went to another cell.
C10_Witness ==
    /\ ticks = 1
    /\ keys = 0
    /\ event = [op |-> "tick"]
    /\ snake.head = Position_new(9, 16)
    /\ snake.body = << Position_new(8, 16), Position_new(7, 16) >>
    /\ snake.ate = "Food"
    /\ food # snake.head
    /\ ~game_over
\* C11 (as claimed): between driver steps the food cell is neither the head
\* cell nor the cell of any body segment.
C11_FoodOffSnake ==
    pc = "idle" =>
        /\ food # snake.head
        /\ \A i \in 1 .. Len(snake.body) : food # snake.body[i]
\* C12: for every in-bounds position and every direction, one step in the
\* direction followed by one step in its inverse returns to the position.
C12_RoundTrip == probe.stage = "back" => probe.back = probe.pos

\* C12 witness: from a cell on the x = 0 edge the step Left wrapped to the
\* opposite edge and the step Right has been taken back.
C12_Witness ==
    /\ probe.stage = "back"
    /\ probe.pos.x = 0
    /\ probe.dir = "Left"
    /\ probe.moved.x = GRID_SIZE[1] - 1
\* C13: a tick whose new head cell is the cell of the last body segment (the
\* tail a plain move would vacate) has outcome Itself, keeps the tail (the
\* body is the old head in front of the whole old body) and ends the game.
C13_TailCounts ==
    [][ (Tick /\ snake'.head = snake.body[Len(snake.body)]) =>
          /\ snake'.ate = "Itself"
          /\ snake'.body = <<snake.head>> \o snake.body
          /\ game_over' ]_vars

\* C13 witness: a snake with a body of 3 has turned three times and its
\* fourth move ended on its tail cell, away from the food.
C13_Witness ==
    /\ event.op = "tick"
    /\ ticks = 4
    /\ Len(snake.body) = 4
    /\ snake.head = snake.body[4]
    /\ snake.head # snake.body[2]
    /\ snake.head # food
    /\ game_over

\* C14: a directional input in a state with dir # prev_dir whose inverse is
\* not dir becomes next_dir, whatever was buffered, and leaves dir alone; one
\* that is the inverse of dir leaves next_dir alone.
C14_PendingArbitration ==
    [][ (KeyDown /\ snake.dir # snake.prev_dir /\ event'.keycode \in Direction) =>
          IF inverse(event'.keycode) # snake.dir
          THEN /\ snake'.next_dir = event'.keycode
               /\ snake'.dir = snake.dir
          ELSE snake'.next_dir = snake.next_dir ]_vars

\* C14 witness: Up was committed, Left was buffered, then Right replaced Left
\* in the buffer; no tick has run.
C14_Witness ==
    /\ ticks = 0
    /\ keys = 3
    /\ window = <<"Up", "Left", "Right">>
    /\ snake.prev_dir = "Right"
    /\ snake.dir = "Up"
    /\ snake.next_dir = "Right"
\* C15 (as claimed): once game_over is true a directional input leaves the
\* snake (head, body, dir, prev_dir, next_dir, ate), the food and game_over
\* as they are.
C15_InputAfterGameOver ==
    [][ (KeyDown /\ game_over /\ event'.keycode \in Direction) =>
          /\ snake' = snake
          /\ food' = food
          /\ game_over' = game_over ]_vars
\* C15 (amended): once game_over is true a directional input leaves head,
\* body, prev_dir, ate, food and game_over as they are; dir and next_dir
\* still follow the arbitration rules.
C15_InputAfterGameOverFrame ==
    [][ (KeyDown /\ game_over /\ event'.keycode \in Direction) =>
          /\ snake'.head = snake.head
          /\ snake'.body = snake.body
          /\ snake'.prev_dir = snake.prev_dir
          /\ snake'.ate = snake.ate
          /\ food' = food
          /\ game_over' = game_over ]_vars

\* C15 witness: a directional key arrived after the tick that ended the game
\* and changed dir.
C15_Witness ==
    /\ game_over
    /\ event.op = "key"
    /\ event.keycode \in Direction
    /\ snake.dir = event.keycode
    /\ snake.dir # snake.prev_dir
\* The cells of the snake, head first.
Cells == <<snake.head>> \o snake.body

\* p and q are one step apart on the torus: equal in one coordinate, and
\* one apart modulo the grid size in the other.
OneStepApart(p, q) ==
    \/ /\ p.y = q.y
       /\ (p.x - q.x) % GRID_SIZE[1] \in {1, GRID_SIZE[1] - 1}
    \/ /\ p.x = q.x
       /\ (p.y - q.y) % GRID_SIZE[2] \in {1, GRID_SIZE[2] - 1}

\* C16: while game_over is false the head and the body segments are on
\* pairwise distinct cells.
C16_DistinctCells ==
    ~game_over =>
        \A i, j \in 1 .. Len(Cells) : i # j => Cells[i] # Cells[j]

\* C16 witness: a living snake with a body of 3, after four ticks of which
\* two ate and at least two turned.
C16_Witness ==
    /\ ~game_over
    /\ ticks = 4
    /\ Len(snake.body) = 3
    /\ snake.head.x # snake.body[3].x
    /\ snake.head.y # snake.body[3].y

\* C17: dir is never the inverse of prev_dir.
C17_DirNotInverse == snake.dir # inverse(snake.prev_dir)

\* C17 witness: after a tick that moved Up, the one input accepted since
\* is a sideways turn, so dir is perpendicular to prev_dir.
C17_Witness ==
    /\ ticks >= 1
    /\ keys = 3
    /\ event.op = "key"
    /\ window = <<event.keycode>>
    /\ snake.prev_dir = "Up"
    /\ snake.dir \in {"Left", "Right"}
    /\ snake.dir = event.keycode

\* C18: the body is not empty, its first segment is one toroidal step from
\* the head, and every later segment is one toroidal step from the one
\* before it.
C18_ContiguousTrail ==
    /\ Len(snake.body) >= 1
    /\ \A i \in 1 .. Len(Cells) - 1 : OneStepApart(Cells[i], Cells[i + 1])

\* C18 witness: a snake with a body of at least 2 lies across the x = 0
\* edge, its first segment on x = 31 and its second on x = 0.
C18_Witness ==
    /\ Len(snake.body) >= 2
    /\ snake.head.x = GRID_SIZE[1] - 2
    /\ snake.body[1].x = GRID_SIZE[1] - 1
    /\ snake.body[2].x = 0

\* C19: game_over is true exactly when the last recorded outcome is Itself.
C19_GameOverIffItself == game_over <=> snake.ate = "Itself"

\* C19 witness: a snake that never ate ran into itself, and the tick that
\* recorded Itself set game_over.
C19_Witness ==
    /\ event.op = "tick"
    /\ snake.ate = "Itself"
    /\ Len(snake.body) = 2
    /\ game_over
====
